---- MODULE Spec2Model ----
(***************************************************************************)
(* Model of the bookkeeping app: the report dashboard                      *)
(* (ReportDashboard.tsx: period filters, statistics aggregator, month /    *)
(* week / day trend builder, category breakdowns, export) and the App's    *)
(* transaction store (initial load, save, edit, delete, cloud push).       *)
(*                                                                         *)
(* Spec follows the dashboard over a store that grows by saves; AppSpec    *)
(* follows the store through the App's handlers and their asynchronous     *)
(* continuations.                                                          *)
(*                                                                         *)
(* Dates are 'YYYY-MM-DD' strings in the source; here a date string is the *)
(* triple <<YYYY, MM, DD>>.  A JavaScript Date is an instant; here it is a *)
(* whole number of hours since 1970-01-01T00:00Z (every instant the code   *)
(* builds is a midnight, UTC or local, and the model's time zones are      *)
(* whole-hour offsets, so ms / 86400000 is hours / 24).  A text (a note,    *)
(* an exported file) is a sequence of characters and printed fields.  An   *)
(* id is a Date.now() reading (a small number here); 0 stands for null /   *)
(* undefined.                                                              *)
(***************************************************************************)
EXTENDS Integers, Sequences, FiniteSets, TLC

VARIABLES
    tz,                    \* the browser's local UTC offset in hours (environment)
    currentYear,           \* new Date().getFullYear() at mount
    transactions,          \* the transactions prop (the App's store)
    added,                 \* number of save / delete handler calls in this session
    year,                  \* useState(currentYear)
    month,                 \* useState(currentMonth)
    trendMode,             \* useState('month')
    useSmartDistribution,  \* useState(false)
    stored,                \* localStorage[STORAGE_KEY], parsed
    editingId,             \* useState<number | null>(null); 0 is null
    initialLoading,        \* useState(false), true while sync() runs
    fetchState,            \* the fetchCloudData promise of the initial load
    syncStatus,            \* useState<SyncStatus>('idle')
    pushes,                \* payloads of the syncTransactionToCloud calls in flight
    timers,                \* armed setTimeout(() => setSyncStatus('idle'), ...)
    now                    \* the clock: Date.now() when the last handler ran

dashVars == <<year, month, trendMode, useSmartDistribution>>
appVars == <<stored, editingId, initialLoading, fetchState, syncStatus, pushes, timers, now>>
vars == <<tz, currentYear, transactions, added, dashVars, appVars>>

-----------------------------------------------------------------------------
(* Bounds and input domains *)

MaxAdd == 2

TZOffsets == {-8, 8, 9}        \* America/Los_Angeles (winter), Asia/Taipei, Asia/Tokyo
ClockYears == {2024}
MonthChoices == {1, 12}

Income == "Income"             \* '收入'
Expense == "Expense"           \* '支出'

Tx(id, d, t, c, a, note) ==
    [id |-> id, date |-> d, type |-> t, category |-> c, amount |-> a, note |-> note]

\* Notes: none, one with a comma, and He said "hi"
NoNote == <<>>
CommaNote == <<"a", ",", "b">>
QuoteNote == <<"H", "e", " ", "s", "a", "i", "d", " ", "\"", "h", "i", "\"">>

\* Date.now() when the session starts (ids of earlier sessions are smaller)
ClockBase == 200

\* Collections loadLocalData can return: nothing, or what earlier sessions
\* persisted (among it a record ingested from the cloud sheet with a type
\* outside the two variants).
LocalStores ==
    { <<>>,
      << Tx(101, <<2024, 1, 5>>, Income, "Cash", 15, NoNote),
         Tx(102, <<2023, 6, 15>>, "Other", "Misc", 40, CommaNote),
         Tx(103, <<2024, 12, 31>>, Expense, "FoodPanda", 200, NoNote),
         Tx(104, <<2023, 2, 1>>, Expense, "Rent", 300, NoNote),
         Tx(107, <<2024, 12, 1>>, Expense, "Rent", 3100, NoNote) >> }

\* Form contents InputForm.handleSubmit hands to onSave (id: see FormData).
FormInputs ==
    { Tx(0, <<2024, 1, 5>>, Income, "Cash", 1000, QuoteNote),
      Tx(0, <<2024, 1, 5>>, Expense, "Rent", 3100, NoNote),
      Tx(0, <<2024, 1, 1>>, Income, "FoodPanda", 7, NoNote),
      Tx(0, <<2024, 1, 5>>, Expense, "Ingredients", 11, NoNote) }

\* The App runs are followed in the app's home zone, with two of the forms,
\* from local stores of at most AppLocalLen records.
HomeTZ == 8
AppFormInputs == {f \in FormInputs : f.amount >= 1000}
AppLocalLen == 1
AppLocalStores == {SubSeq(s, 1, IF Len(s) < AppLocalLen THEN Len(s) ELSE AppLocalLen) : s \in LocalStores}

-----------------------------------------------------------------------------
(* The JavaScript Date operations the dashboard uses *)

IsLeapYear(y) == (y % 4 = 0 /\ y % 100 # 0) \/ y % 400 = 0

DaysBeforeYear(y) ==
    365 * (y - 1970) + ((y - 1969) \div 4) - ((y - 1901) \div 100) + ((y - 1601) \div 400)

MonthLen(y, m) ==
    IF m = 2 THEN (IF IsLeapYear(y) THEN 29 ELSE 28)
    ELSE IF m \in {4, 6, 9, 11} THEN 30 ELSE 31

DaysBeforeMonth(y, m) ==
    LET leap == IF m > 2 /\ IsLeapYear(y) THEN 1 ELSE 0
    IN CASE m = 1 -> 0  [] m = 2 -> 31
         [] m = 3 -> 59 + leap   [] m = 4 -> 90 + leap   [] m = 5 -> 120 + leap
         [] m = 6 -> 151 + leap  [] m = 7 -> 181 + leap  [] m = 8 -> 212 + leap
         [] m = 9 -> 243 + leap  [] m = 10 -> 273 + leap [] m = 11 -> 304 + leap
         [] m = 12 -> 334 + leap

\* days from 1970-01-01 to the calendar date <<y, m, d>>
DaysFromCivil(date) ==
    DaysBeforeYear(date[1]) + DaysBeforeMonth(date[1], date[2]) + date[3] - 1

\* the calendar date of day number n (n >= 0; years 1970 to 3000)
CivilFromDays(n) ==
    LET y0 == 1970 + n \div 365
        y == IF DaysBeforeYear(y0) <= n THEN y0 ELSE y0 - 1
        doy == n - DaysBeforeYear(y)
        leap == IF IsLeapYear(y) THEN 1 ELSE 0
        m == IF doy < 31 THEN 1
             ELSE IF doy < 59 + leap THEN 2
             ELSE IF doy < 90 + leap THEN 3
             ELSE IF doy < 120 + leap THEN 4
             ELSE IF doy < 151 + leap THEN 5
             ELSE IF doy < 181 + leap THEN 6
             ELSE IF doy < 212 + leap THEN 7
             ELSE IF doy < 243 + leap THEN 8
             ELSE IF doy < 273 + leap THEN 9
             ELSE IF doy < 304 + leap THEN 10
             ELSE IF doy < 334 + leap THEN 11
             ELSE 12
    IN <<y, m, doy - DaysBeforeMonth(y, m) + 1>>

\* new Date('YYYY-MM-DD'): a date-only string is parsed as UTC midnight
ParseDate(date) == 24 * DaysFromCivil(date)

\* new Date(y, monthIndex, day): local midnight; monthIndex 12 and day 0 roll over
NewDate(y, monthIndex, day) ==
    24 * (DaysFromCivil(<<y + monthIndex \div 12, (monthIndex % 12) + 1, 1>>) + day - 1) - tz

\* the calendar date of the instant in the local time zone
LocalDate(instant) == CivilFromDays((instant + tz) \div 24)

\* getMonth() / getDate(): fields of the instant in the local time zone
GetMonth(instant) == LocalDate(instant)[2] - 1
GetDate(instant) == LocalDate(instant)[3]

\* toLocaleDateString('sv-SE', { timeZone: 'Asia/Taipei' }): the date in UTC+8
ToTaipeiDateString(instant) == CivilFromDays((instant + 8) \div 24)

\* Math.round of the non-negative quotient num / den: halves round up
MathRound(num, den) == (2 * num + den) \div (2 * den)

Min(a, b) == IF a < b THEN a ELSE b

-----------------------------------------------------------------------------
(* Period filter and statistics aggregator *)

\* years offered by the year select
years == {currentYear} \cup {transactions[i].date[1] : i \in DOMAIN transactions}

\* t.date.startsWith(year)
StartsWithYear(date, y) == date[1] = y

\* mutant: the filter also keeps the records of earlier years
FilterByYear_AtMost(all, y) == SelectSeq(all, LAMBDA t : t.date[1] <= y)

FilterByYear(all, y) == SelectSeq(all, LAMBDA t : StartsWithYear(t.date, y))

yearData == FilterByYear(transactions, year)

FilterByMonth(data, mo) == SelectSeq(data, LAMBDA t : GetMonth(ParseDate(t.date)) + 1 = mo)

monthData == FilterByMonth(yearData, month)

RECURSIVE calculateStats(_)
calculateStats(data) ==
    IF data = <<>> THEN [inc |-> 0, exp |-> 0, net |-> 0]
    ELSE LET acc == calculateStats(SubSeq(data, 1, Len(data) - 1))
             t == data[Len(data)]
         IN IF t.type = Income THEN [acc EXCEPT !.inc = @ + t.amount]
            ELSE [acc EXCEPT !.exp = @ + t.amount]

getStats(data) ==
    LET s == calculateStats(data) IN [s EXCEPT !.net = s.inc - s.exp]

yearStats == getStats(yearData)
monthStats == getStats(monthData)

-----------------------------------------------------------------------------
(* Trend builder *)

\* A trend point; month and week points carry no fullDate.
\* name: <<m>> for `${m}月`, <<w>> for `W${w}`, <<M, D>> for `${M}/${D}`.
Point(name, fullDate, inc, exp) ==
    [name |-> name, fullDate |-> fullDate, inc |-> inc, exp |-> exp, net |-> inc - exp]

\* --- month mode ---
\* mutant: only records of type Expense are counted as expense
RECURSIVE MonthAccumulate_TwoTypes(_, _)
MonthAccumulate_TwoTypes(data, statsMap) ==
    IF data = <<>> THEN statsMap
    ELSE LET t == Head(data)
             m == GetMonth(ParseDate(t.date)) + 1
         IN MonthAccumulate_TwoTypes(Tail(data),
                IF t.type = Income THEN [statsMap EXCEPT ![m].inc = @ + t.amount]
                ELSE IF t.type = Expense THEN [statsMap EXCEPT ![m].exp = @ + t.amount]
                ELSE statsMap)

RECURSIVE MonthAccumulate(_, _)
MonthAccumulate(data, statsMap) ==
    IF data = <<>> THEN statsMap
    ELSE LET t == Head(data)
             m == GetMonth(ParseDate(t.date)) + 1
         IN MonthAccumulate(Tail(data),
                IF t.type = Income THEN [statsMap EXCEPT ![m].inc = @ + t.amount]
                ELSE [statsMap EXCEPT ![m].exp = @ + t.amount])

monthTrend ==
    LET statsMap == MonthAccumulate(yearData, [i \in 1..12 |-> [inc |-> 0, exp |-> 0]])
    IN [m \in 1..12 |-> Point(<<m>>, <<>>, statsMap[m].inc, statsMap[m].exp)]

\* --- week mode ---
\* mutant: the 52 weeks of the earlier revision
WeekBuckets_Earlier == 52
WeekBuckets == 53
LastWeekIdx == 52

startOfYear == NewDate(year, 0, 1)

weekIdx(t) ==
    LET days == (ParseDate(t.date) - startOfYear) \div 24
    IN Min(days \div 7, LastWeekIdx)

\* weeks[weekIdx] is undefined for an index outside the array: the += throws a TypeError
weekThrows ==
    \E i \in DOMAIN yearData : weekIdx(yearData[i]) \notin 0 .. (WeekBuckets - 1)

RECURSIVE WeekAccumulate(_, _)
WeekAccumulate(data, weeks) ==
    IF data = <<>> THEN weeks
    ELSE LET t == Head(data)
             w == weekIdx(t) + 1
         IN WeekAccumulate(Tail(data),
                IF t.type = Income THEN [weeks EXCEPT ![w].inc = @ + t.amount]
                ELSE [weeks EXCEPT ![w].exp = @ + t.amount])

weekTrend ==
    LET weeks == WeekAccumulate(yearData, [i \in 1..WeekBuckets |-> [inc |-> 0, exp |-> 0]])
    IN [w \in 1..WeekBuckets |-> Point(<<w>>, <<>>, weeks[w].inc, weeks[w].exp)]

\* --- day mode ---
\* EXPENSE_DISTRIBUTION_RULES (imported from '../constants'; its definition is
\* not among the sources): categories spread evenly / spread by income share.
FIXED == {"Rent", "Water", "Electricity", "Gas", "Phone", "Cleaning", "MonthlyWage"}
WEIGHTED == {"Ingredients", "Rice", "Vegetables", "HotpotItems", "Seasoning", "Supplies"}

daysInYear(y) == IF (y % 4 = 0 /\ y % 100 > 0) \/ y % 400 = 0 THEN 366 ELSE 365

\* the Date of loop iteration i (0-based): new Date(year, 0, 1) after i setDate(getDate() + 1)
iterateDate(i) == NewDate(year, 0, 1 + i)

dateStr(i) == ToTaipeiDateString(iterateDate(i))

\* t.date.substring(0, 7) / `${year}-${MM}`
MonthKey(date) == <<date[1], date[2]>>

\* new Date(Number(year), i, 0).getDate()
daysInMonth(i) == GetDate(NewDate(year, i, 0))

RECURSIVE PoolAccumulate(_, _)
PoolAccumulate(data, pools) ==
    IF data = <<>> THEN pools
    ELSE LET t == Head(data)
             monthKey == MonthKey(t.date)
         IN PoolAccumulate(Tail(data),
                IF monthKey \notin DOMAIN pools THEN pools
                ELSE IF t.type = Income THEN [pools EXCEPT ![monthKey].totalInc = @ + t.amount]
                ELSE IF t.category \in FIXED THEN [pools EXCEPT ![monthKey].fixedExp = @ + t.amount]
                ELSE IF t.category \in WEIGHTED THEN [pools EXCEPT ![monthKey].weightedExp = @ + t.amount]
                ELSE pools)

monthlyPools ==
    IF useSmartDistribution
    THEN PoolAccumulate(yearData,
             [k \in {<<year, i>> : i \in 1..12} |->
                 [totalInc |-> 0, fixedExp |-> 0, weightedExp |-> 0, days |-> daysInMonth(k[2])]])
    ELSE <<>>

\* mutant: with smart distribution on, pooled expenses are also counted on their own date
RECURSIVE DayAccumulate_CountsPooled(_, _)
DayAccumulate_CountsPooled(data, map) ==
    IF data = <<>> THEN map
    ELSE LET t == Head(data)
         IN DayAccumulate_CountsPooled(Tail(data),
                IF t.date \notin DOMAIN map THEN map
                ELSE IF t.type = Income THEN [map EXCEPT ![t.date].inc = @ + t.amount]
                ELSE IF useSmartDistribution
                     THEN [map EXCEPT ![t.date].directExp = @ + t.amount]
                     ELSE [map EXCEPT ![t.date].exp = @ + t.amount])

RECURSIVE DayAccumulate(_, _)
DayAccumulate(data, map) ==
    IF data = <<>> THEN map
    ELSE LET t == Head(data)
         IN DayAccumulate(Tail(data),
                IF t.date \notin DOMAIN map THEN map
                ELSE IF t.type = Income THEN [map EXCEPT ![t.date].inc = @ + t.amount]
                ELSE IF useSmartDistribution
                     THEN (IF t.category \notin FIXED /\ t.category \notin WEIGHTED
                           THEN [map EXCEPT ![t.date].directExp = @ + t.amount]
                           ELSE map)
                     ELSE [map EXCEPT ![t.date].exp = @ + t.amount])

\* the keys of the two day loops, in loop order
dateStrs == [n \in 1 .. daysInYear(year) |-> dateStr(n - 1)]

dayMap(keys) ==
    DayAccumulate(yearData,
        [k \in {keys[n] : n \in DOMAIN keys} |-> [inc |-> 0, exp |-> 0, directExp |-> 0]])

\* Operand triples <<weightedExp, inc, totalInc>> of the model's amounts for which
\* the double product weightedExp * (inc / totalInc) falls just below the exact
\* half-integer weightedExp * inc / totalInc (11 * (15 / 22) is 7.499999999999999).
FloatTieBelow == { <<11, 15, 22>> }

\* Math.round(pool.weightedExp * (stats.inc / pool.totalInc)) in IEEE doubles
WeightedRound(weightedExp, inc, totalInc) ==
    IF <<weightedExp, inc, totalInc>> \in FloatTieBelow
    THEN MathRound(weightedExp * inc, totalInc) - 1
    ELSE MathRound(weightedExp * inc, totalInc)

\* mutant: the share is truncated instead of rounded
fixedShare_Floor(pool) == pool.fixedExp \div pool.days

fixedShare(pool) == MathRound(pool.fixedExp, pool.days)

\* mutant: a month without income charges its whole weighted pool to every day
weightedShare_Unguarded(pool, stats) ==
    IF pool.totalInc > 0 THEN WeightedRound(pool.weightedExp, stats.inc, pool.totalInc)
    ELSE pool.weightedExp

weightedShare(pool, stats) ==
    IF pool.totalInc > 0 THEN WeightedRound(pool.weightedExp, stats.inc, pool.totalInc) ELSE 0

finalExp(pools, stats, monthKey) ==
    IF useSmartDistribution /\ monthKey \in DOMAIN pools
    THEN stats.directExp + fixedShare(pools[monthKey]) + weightedShare(pools[monthKey], stats)
    ELSE stats.exp

\* name is `${getMonth() + 1}/${getDate()}` of iterateDate, fullDate is dateStr
dayTrend ==
    LET pools == monthlyPools
        keys == dateStrs
        map == dayMap(keys)
    IN [n \in 1 .. daysInYear(year) |->
           LET ds == keys[n]
               local == LocalDate(iterateDate(n - 1))
               stats == map[ds]
           IN Point(<<local[2], local[3]>>, ds, stats.inc, finalExp(pools, stats, MonthKey(ds)))]

\* the useMemo result; threw = the computation raised (a render error unmounts the app)
trendData ==
    IF trendMode = "month" THEN [threw |-> FALSE, points |-> monthTrend]
    ELSE IF trendMode = "week"
         THEN (IF weekThrows THEN [threw |-> TRUE, points |-> <<>>]
               ELSE [threw |-> FALSE, points |-> weekTrend])
    ELSE [threw |-> FALSE, points |-> dayTrend]

renderThrows == trendMode = "week" /\ weekThrows

-----------------------------------------------------------------------------
(* Category breakdowns *)

\* catMap.set(key, (catMap.get(key) || 0) + t.amount) over the records of one
\* type; a Map keeps its keys in insertion order: a sequence of entries
\* mutant: a later record of a category replaces the category's value
RECURSIVE CatAccumulate_Overwrite(_, _, _)
CatAccumulate_Overwrite(data, type, catMap) ==
    IF data = <<>> THEN catMap
    ELSE LET t == Head(data)
             at == {k \in DOMAIN catMap : catMap[k].name = t.category}
         IN CatAccumulate_Overwrite(Tail(data), type,
                IF t.type # type THEN catMap
                ELSE IF at = {} THEN Append(catMap, [name |-> t.category, value |-> t.amount])
                ELSE [k \in DOMAIN catMap |->
                         IF k \in at THEN [catMap[k] EXCEPT !.value = t.amount] ELSE catMap[k]])

RECURSIVE CatAccumulate(_, _, _)
CatAccumulate(data, type, catMap) ==
    IF data = <<>> THEN catMap
    ELSE LET t == Head(data)
             at == {k \in DOMAIN catMap : catMap[k].name = t.category}
         IN CatAccumulate(Tail(data), type,
                IF t.type # type THEN catMap
                ELSE IF at = {} THEN Append(catMap, [name |-> t.category, value |-> t.amount])
                ELSE [k \in DOMAIN catMap |->
                         IF k \in at THEN [catMap[k] EXCEPT !.value = @ + t.amount] ELSE catMap[k]])

\* Array.prototype.sort((a, b) => b.value - a.value): stable, descending by value
\* mutant: the entries are left in insertion order
RECURSIVE SortByValueDesc_Unsorted(_)
SortByValueDesc_Unsorted(entries) ==
    IF entries = <<>> THEN <<>>
    ELSE Append(SortByValueDesc_Unsorted(SubSeq(entries, 1, Len(entries) - 1)), entries[Len(entries)])

RECURSIVE SortByValueDesc(_)
SortByValueDesc(entries) ==
    IF entries = <<>> THEN <<>>
    ELSE LET sorted == SortByValueDesc(SubSeq(entries, 1, Len(entries) - 1))
             e == entries[Len(entries)]
             before == Cardinality({k \in DOMAIN sorted : sorted[k].value >= e.value})
         IN SubSeq(sorted, 1, before) \o <<e>> \o SubSeq(sorted, before + 1, Len(sorted))

getProcessedExpenseData(data) == SortByValueDesc(CatAccumulate(data, Expense, <<>>))

getIncomeSourceData(data) == SortByValueDesc(CatAccumulate(data, Income, <<>>))

\* the four charts: income sources and cost structure, of the year and of the month
chartsData ==
    << getIncomeSourceData(yearData), getProcessedExpenseData(yearData),
       getIncomeSourceData(monthData), getProcessedExpenseData(monthData) >>

-----------------------------------------------------------------------------
(* Export: handleExport builds a text from the transactions prop and hands it
   to the browser as a download; no state of the app changes.  A text is a
   sequence of characters; a number, a type or a category is printed as one
   element. *)

BOM == "BOM"                   \* '\uFEFF'
Quote == "\""
Comma == ","
NewLine == "\n"

\* the 'YYYY-MM-DD' string of a date
DateText(d) ==
    <<ToString(d[1]), "-">> \o (IF d[2] < 10 THEN <<"0">> ELSE <<>>) \o <<ToString(d[2]), "-">>
        \o (IF d[3] < 10 THEN <<"0">> ELSE <<>>) \o <<ToString(d[3])>>

\* texts.join(sep)
RECURSIVE Join(_, _)
Join(texts, sep) ==
    IF texts = <<>> THEN <<>>
    ELSE IF Len(texts) = 1 THEN texts[1]
    ELSE texts[1] \o <<sep>> \o Join(Tail(texts), sep)

\* note.replace(/"/g, '""')
\* mutant: embedded quotes are left single
RECURSIVE ReplaceQuotes_Single(_)
ReplaceQuotes_Single(note) ==
    IF note = <<>> THEN <<>>
    ELSE <<Head(note)>> \o ReplaceQuotes_Single(Tail(note))

RECURSIVE ReplaceQuotes(_)
ReplaceQuotes(note) ==
    IF note = <<>> THEN <<>>
    ELSE (IF Head(note) = Quote THEN <<Quote, Quote>> ELSE <<Head(note)>>) \o ReplaceQuotes(Tail(note))

\* ['ID', '日期', '類型', '類別', '金額', '備註']
headers == << <<"ID">>, <<"Date">>, <<"Type">>, <<"Category">>, <<"Amount">>, <<"Note">> >>

\* one element of rows: the six fields of a transaction
csvRow(t) ==
    << <<ToString(t.id)>>, DateText(t.date), <<t.type>>, <<t.category>>, <<ToString(t.amount)>>,
       <<Quote>> \o ReplaceQuotes(t.note) \o <<Quote>> >>

csvContent(all) ==
    LET rows == [i \in DOMAIN all |-> csvRow(all[i])]
    IN <<BOM>> \o Join(<<Join(headers, Comma)>> \o [i \in DOMAIN rows |-> Join(rows[i], Comma)], NewLine)

\* JSON.stringify of a string: quotes and backslashes are escaped
RECURSIVE JsonEscape(_)
JsonEscape(text) ==
    IF text = <<>> THEN <<>>
    ELSE (IF Head(text) \in {Quote, "\\"} THEN <<"\\", Head(text)>> ELSE <<Head(text)>>)
             \o JsonEscape(Tail(text))

JsonString(text) == <<Quote>> \o JsonEscape(text) \o <<Quote>>

\* The number Infinity (Number('Infinity'), Number('1e999')), standing above
\* every finite amount, and JSON's null, standing apart from every number.
Infinity == 1000000
null == 0 - Infinity

\* what JSON.parse reads back where JSON.stringify wrote a number: a number
\* that is not finite is written as null
JsonNumber(v) == IF v = Infinity THEN null ELSE v

\* the text JSON.stringify writes for a number
JsonNumberText(v) == IF v = Infinity THEN "null" ELSE ToString(v)

\* JSON.stringify of one transaction (the indentation is left out)
JsonObject(t) ==
    <<"{">> \o Join(<< JsonString(<<"id">>) \o <<":", ToString(t.id)>>,
                       JsonString(<<"date">>) \o <<":">> \o JsonString(DateText(t.date)),
                       JsonString(<<"type">>) \o <<":">> \o JsonString(<<t.type>>),
                       JsonString(<<"category">>) \o <<":">> \o JsonString(<<t.category>>),
                       JsonString(<<"amount">>) \o <<":", JsonNumberText(t.amount)>>,
                       JsonString(<<"note">>) \o <<":">> \o JsonString(t.note) >>, Comma)
          \o <<"}">>

\* JSON.stringify(transactions, null, 2)
jsonContent(all) ==
    <<"[">> \o Join([i \in DOMAIN all |-> JsonObject(all[i])], Comma) \o <<"]">>

\* the selections of the dashboard: what handleExport's closure can see besides
\* the transactions prop
View(y, m, mode, smart) ==
    [year |-> y, month |-> m, trendMode |-> mode, useSmartDistribution |-> smart]

\* the text handleExport(type) hands to the download
\* mutant: the records of the selected year are exported
handleExport_OfYear(type, all, view) ==
    IF type = "json" THEN jsonContent(FilterByYear(all, view.year))
    ELSE csvContent(FilterByYear(all, view.year))

handleExport(type, all, view) ==
    IF type = "json" THEN jsonContent(all) ELSE csvContent(all)

exportCsv == handleExport("csv", transactions, View(year, month, trendMode, useSmartDistribution))
exportJson == handleExport("json", transactions, View(year, month, trendMode, useSmartDistribution))

-----------------------------------------------------------------------------
(* services/api: the cloud sheet and fetchCloudData *)

\* A CloudTransaction row.  id 0: no id.  date: a 'YYYY-MM-DD' string ("ymd"),
\* another parsable string ("iso", an instant) or an unparsable one ("bad").
\* amount: a number or numeric string (numeric, val) or any other text.
Row(id, date, t, c, amount, note) ==
    [id |-> id, date |-> date, type |-> t, category |-> c, amount |-> amount, note |-> note]
Ymd(d) == [kind |-> "ymd", d |-> d, instant |-> 0]
Iso(instant) == [kind |-> "iso", d |-> <<>>, instant |-> instant]
BadDate == [kind |-> "bad", d |-> <<>>, instant |-> 0]
Num(v) == [numeric |-> TRUE, val |-> v]
NotNum == [numeric |-> FALSE, val |-> 0]

\* saveLocalData: localStorage.setItem(STORAGE_KEY, JSON.stringify(data)), the
\* stored document held as the collection JSON.parse reads back from it
saveLocalData(data) ==
    [i \in DOMAIN data |-> [data[i] EXCEPT !.id = JsonNumber(@), !.amount = JsonNumber(@)]]

\* Arrays the cloud endpoint can answer with.
CloudSheets ==
    { <<>>,
      << Row(0, Ymd(<<2024, 1, 5>>), Income, "Cash", Num(0 - 15), NoNote),
         Row(0, Ymd(<<2024, 1, 6>>), Expense, "Rent", NotNum, NoNote),
         Row(0, BadDate, "Other", "Misc", Num(40), CommaNote) >>,
      << Row(101, Iso(24 * DaysFromCivil(<<2024, 1, 4>>) + 16), Income, "Cash", Num(15), NoNote),
         Row(105, Ymd(<<2024, 1, 1>>), Expense, "Supplies", Num(0), NoNote),
         Row(103, Ymd(<<2024, 12, 31>>), Expense, "FoodPanda", Num(200), QuoteNote),
         Row(106, Ymd(<<2024, 2, 1>>), Expense, "Rent", Num(Infinity), NoNote) >> }

\* new Date(): the session runs on 2024-03-10, 06:00Z
SessionInstant == 24 * DaysFromCivil(<<2024, 3, 10>>) + 6

\* r.amount && !isNaN(Number(r.amount))
AmountPasses(amount) == amount.numeric /\ amount.val # 0

\* the date handling of the map callback: 'YYYY-MM-DD' is read as local
\* midnight, an unparsable date becomes new Date(); formatted in Asia/Taipei
cleanDate(date) ==
    LET dateObj == IF date.kind = "ymd" THEN 24 * DaysFromCivil(date.d) - tz
                   ELSE IF date.kind = "iso" THEN date.instant
                   ELSE SessionInstant
    IN ToTaipeiDateString(dateObj)

\* mutant: a row whose date cannot be parsed is dropped with the bad amounts
fetchCloudData_DropsBadDates(cloudData, t) ==
    LET kept == SelectSeq(cloudData, LAMBDA r : AmountPasses(r.amount) /\ r.date.kind # "bad")
    IN [index \in 1 .. Len(kept) |->
           LET r == kept[index]
           IN Tx(IF r.id # 0 THEN r.id ELSE t + (index - 1), cleanDate(r.date),
                 r.type, r.category, r.amount.val, r.note)]

\* fetchCloudData on a parsed array, t the Date.now() reading
fetchCloudData(cloudData, t) ==
    LET kept == SelectSeq(cloudData, LAMBDA r : AmountPasses(r.amount))
    IN [index \in 1 .. Len(kept) |->
           LET r == kept[index]
           IN Tx(IF r.id # 0 THEN r.id ELSE t + (index - 1), cleanDate(r.date),
                 r.type, r.category, r.amount.val, r.note)]

-----------------------------------------------------------------------------
(* Actions *)

\* The dashboard on an App whose initial load has settled with no cloud data.
Init ==
    /\ tz \in TZOffsets
    /\ currentYear \in ClockYears
    /\ transactions \in LocalStores
    /\ added = 0
    /\ year = currentYear
    /\ month \in MonthChoices
    /\ trendMode = "month"
    /\ useSmartDistribution = FALSE
    /\ stored = transactions
    /\ editingId = 0
    /\ initialLoading = FALSE
    /\ fetchState = "fulfilled"
    /\ syncStatus = "idle"
    /\ pushes = <<>>
    /\ timers = 0
    /\ now = ClockBase

\* An exception thrown while rendering unmounts the component tree, so no
\* handler runs once renderThrows holds.

\* transactions.find(t => t.id === editingId) || null, as its index (0: null)
editingTransaction ==
    IF \E i \in DOMAIN transactions : transactions[i].id = editingId
    THEN CHOOSE i \in DOMAIN transactions :
             /\ transactions[i].id = editingId
             /\ \A j \in 1 .. (i - 1) : transactions[j].id # editingId
    ELSE 0

\* what InputForm.handleSubmit passes to onSave for the form contents f
FormData(f) ==
    [f EXCEPT !.id = IF editingTransaction # 0 THEN transactions[editingTransaction].id ELSE 0]

\* handleSaveTransaction up to its await, t the Date.now() reading
HandleSaveTransaction(data, t) ==
    /\ ~renderThrows
    /\ added < MaxAdd
    /\ LET newTx == [data EXCEPT !.id = IF data.id # 0 THEN data.id ELSE t]
           newTransactions ==
               IF editingId # 0
               THEN [i \in DOMAIN transactions |->
                        IF transactions[i].id = editingId THEN newTx ELSE transactions[i]]
               ELSE Append(transactions, newTx)
       IN /\ transactions' = newTransactions
          /\ stored' = saveLocalData(newTransactions)
          /\ pushes' = Append(pushes, [action |-> "save", tx |-> newTx])
    /\ editingId' = 0
    /\ syncStatus' = "saving"
    /\ now' = t
    /\ added' = added + 1
    /\ UNCHANGED <<tz, currentYear, dashVars, initialLoading, fetchState, timers>>

SetYear(y) ==
    /\ ~renderThrows
    /\ y \in years
    /\ year' = y
    /\ UNCHANGED <<tz, currentYear, transactions, added, appVars, month, trendMode, useSmartDistribution>>

SetMonth(m) ==
    /\ ~renderThrows
    /\ month' = m
    /\ UNCHANGED <<tz, currentYear, transactions, added, appVars, year, trendMode, useSmartDistribution>>

SetTrendMode(m) ==
    /\ ~renderThrows
    /\ trendMode' = m
    /\ UNCHANGED <<tz, currentYear, transactions, added, appVars, year, month, useSmartDistribution>>

ToggleSmartDistribution ==
    /\ ~renderThrows
    /\ useSmartDistribution' = ~useSmartDistribution
    /\ UNCHANGED <<tz, currentYear, transactions, added, appVars, year, month, trendMode>>

Next ==
    \/ \E f \in FormInputs : HandleSaveTransaction(FormData(f), now + 1)
    \/ \E y \in years : SetYear(y)
    \/ \E m \in MonthChoices : SetMonth(m)
    \/ \E m \in {"month", "week", "day"} : SetTrendMode(m)
    \/ ToggleSmartDistribution

Spec == Init /\ [][Next]_vars

-----------------------------------------------------------------------------
(* The App: initial load, edit, delete and the asynchronous continuations *)

\* App at mount, after the synchronous part of the initial-load effect:
\* the local collection is shown and fetchCloudData is in flight.
AppInit ==
    /\ tz = HomeTZ
    /\ currentYear \in ClockYears
    /\ transactions \in AppLocalStores
    /\ added = 0
    /\ year = currentYear
    /\ month = 1
    /\ trendMode = "month"
    /\ useSmartDistribution = FALSE
    /\ stored = transactions
    /\ editingId = 0
    /\ initialLoading = TRUE
    /\ fetchState = "pending"
    /\ syncStatus = "idle"
    /\ pushes = <<>>
    /\ timers = 0
    /\ now = ClockBase

\* sync() after `await fetchCloudData()` fulfils with the endpoint's array
FetchFulfilled(cloudData, t) ==
    /\ fetchState = "pending"
    /\ LET cloud == fetchCloudData(cloudData, t)
       IN IF Len(cloud) > 0
          THEN transactions' = cloud /\ stored' = saveLocalData(cloud)
          ELSE UNCHANGED <<transactions, stored>>
    /\ initialLoading' = FALSE
    /\ fetchState' = "fulfilled"
    /\ now' = t
    /\ UNCHANGED <<tz, currentYear, added, dashVars, editingId, syncStatus, pushes, timers>>

\* mutant: the failure is handled like an empty answer that replaces the store
FetchRejected_ReplacesStore ==
    /\ fetchState = "pending"
    /\ transactions' = <<>>
    /\ initialLoading' = FALSE
    /\ fetchState' = "rejected"
    /\ UNCHANGED <<tz, currentYear, added, dashVars, stored, editingId,
                   syncStatus, pushes, timers, now>>

\* sync() when fetchCloudData rejects (network failure, non-JSON answer):
\* catch shows a toast, finally ends the loading state
FetchRejected ==
    /\ fetchState = "pending"
    /\ initialLoading' = FALSE
    /\ fetchState' = "rejected"
    /\ UNCHANGED <<tz, currentYear, transactions, added, dashVars, stored, editingId,
                   syncStatus, pushes, timers, now>>

\* a click on a record of the day's details
SetEditingId(id) ==
    /\ \E i \in DOMAIN transactions : transactions[i].id = id
    /\ id # editingId
    /\ editingId' = id
    /\ UNCHANGED <<tz, currentYear, transactions, added, dashVars, stored, initialLoading,
                   fetchState, syncStatus, pushes, timers, now>>

\* onCancelEdit, offered while a record is being edited
CancelEdit ==
    /\ editingTransaction # 0
    /\ editingId' = 0
    /\ UNCHANGED <<tz, currentYear, transactions, added, dashVars, stored, initialLoading,
                   fetchState, syncStatus, pushes, timers, now>>

\* handleDeleteTransaction (confirmed) up to its await; without a record of
\* that id nothing is pushed and the status goes to success at once
HandleDeleteTransaction(id) ==
    /\ added < MaxAdd
    /\ LET newTransactions == SelectSeq(transactions, LAMBDA x : x.id # id)
           found == {i \in DOMAIN transactions : transactions[i].id = id}
       IN /\ transactions' = newTransactions
          /\ stored' = saveLocalData(newTransactions)
          /\ IF found # {}
             THEN LET txToDelete == transactions[CHOOSE i \in found : \A j \in found : i <= j]
                  IN /\ pushes' = Append(pushes, [action |-> "delete",
                                                   tx |-> [id |-> id, date |-> txToDelete.date]])
                     /\ syncStatus' = "saving"
                     /\ timers' = timers
             ELSE /\ pushes' = pushes
                  /\ syncStatus' = "success"
                  /\ timers' = timers + 1
    /\ editingId' = 0
    /\ added' = added + 1
    /\ UNCHANGED <<tz, currentYear, dashVars, initialLoading, fetchState, now>>

\* the sequence s without its i-th element
RemoveAt(s, i) == SubSeq(s, 1, i - 1) \o SubSeq(s, i + 1, Len(s))

\* the continuation after `await syncTransactionToCloud(...)` resolves
PushResolved(i) ==
    /\ i \in DOMAIN pushes
    /\ pushes' = RemoveAt(pushes, i)
    /\ syncStatus' = "success"
    /\ timers' = timers + 1
    /\ UNCHANGED <<tz, currentYear, transactions, added, dashVars, stored, editingId,
                   initialLoading, fetchState, now>>

\* mutant: the failed push takes its record out of the store again
PushRejected_RollsBack(i) ==
    /\ i \in DOMAIN pushes
    /\ pushes' = RemoveAt(pushes, i)
    /\ transactions' = SelectSeq(transactions, LAMBDA x : x.id # pushes[i].tx.id)
    /\ stored' = transactions'
    /\ syncStatus' = "error"
    /\ timers' = timers + 1
    /\ UNCHANGED <<tz, currentYear, added, dashVars, editingId,
                   initialLoading, fetchState, now>>

\* the catch branch: the push was rejected (network unreachable)
PushRejected(i) ==
    /\ i \in DOMAIN pushes
    /\ pushes' = RemoveAt(pushes, i)
    /\ syncStatus' = "error"
    /\ timers' = timers + 1
    /\ UNCHANGED <<tz, currentYear, transactions, added, dashVars, stored, editingId,
                   initialLoading, fetchState, now>>

\* an armed setTimeout(() => setSyncStatus('idle'), ...) fires
TimerFires ==
    /\ timers > 0
    /\ timers' = timers - 1
    /\ syncStatus' = "idle"
    /\ UNCHANGED <<tz, currentYear, transactions, added, dashVars, stored, editingId,
                   initialLoading, fetchState, pushes, now>>

AppNext ==
    \/ \E cloudData \in CloudSheets : FetchFulfilled(cloudData, now + 1)
    \/ FetchRejected
    \/ \E i \in DOMAIN transactions : SetEditingId(transactions[i].id)
    \/ CancelEdit
    \/ \E f \in AppFormInputs : HandleSaveTransaction(FormData(f), now + 1)
    \/ editingTransaction # 0 /\ HandleDeleteTransaction(transactions[editingTransaction].id)
    \/ \E i \in DOMAIN pushes : PushResolved(i)
    \/ \E i \in DOMAIN pushes : PushRejected(i)
    \/ TimerFires

AppSpec == AppInit /\ [][AppNext]_vars

-----------------------------------------------------------------------------
(* Properties *)

RECURSIVE SumAmounts(_)
SumAmounts(s) == IF s = <<>> THEN 0 ELSE s[1].amount + SumAmounts(Tail(s))

\* the k-th smallest index of the index set S, and the subsequence of s at S
KthIndex(S, k) == CHOOSE i \in S : Cardinality({j \in S : j <= i}) = k
SubSeqAt(s, S) == [k \in 1 .. Cardinality(S) |-> s[KthIndex(S, k)]]

RECURSIVE SumField(_, _)
SumField(points, f) ==
    IF points = <<>> THEN 0 ELSE points[1][f] + SumField(Tail(points), f)

\* C3: in month mode the 12 buckets' income, expense and net sum to the
\* yearly income, expense and net of getStats(yearData).
C3_MonthTrendConservesYear ==
    trendMode = "month" =>
        /\ ~trendData.threw
        /\ SumField(trendData.points, "inc") = yearStats.inc
        /\ SumField(trendData.points, "exp") = yearStats.exp
        /\ SumField(trendData.points, "net") = yearStats.net

\* month mode over a year with income and expense in at least two buckets, a
\* January record among those counted in bucket 12
C3_Witness ==
    /\ trendMode = "month"
    /\ Cardinality({m \in 1..12 : trendData.points[m].inc + trendData.points[m].exp > 0}) >= 2
    /\ \E i \in DOMAIN yearData :
           /\ yearData[i].date[2] = 1
           /\ trendData.points[12].inc >= yearData[i].amount
           /\ trendData.points[1].inc < yearStats.inc
    /\ yearStats.inc > 0 /\ yearStats.exp > 0

\* C8: for any subset of the transactions, getStats returns the sum of the
\* Income amounts, the sum of the Expense amounts and their difference.
C8_StatsAreTypeSums ==
    \A S \in SUBSET DOMAIN transactions :
        LET data == SubSeqAt(transactions, S)
            s == getStats(data)
        IN /\ s.inc = SumAmounts(SelectSeq(data, LAMBDA t : t.type = Income))
           /\ s.exp = SumAmounts(SelectSeq(data, LAMBDA t : t.type = Expense))
           /\ s.net = s.inc - s.exp

\* C9: yearData is exactly the records whose date starts with the selected
\* year, in their original order; an empty collection gives an empty result.
C9_YearFilterExactInOrder ==
    LET kept == {i \in DOMAIN transactions : transactions[i].date[1] = year}
    IN /\ Len(yearData) = Cardinality(kept)
       /\ \A k \in 1 .. Len(yearData) : yearData[k] = transactions[KthIndex(kept, k)]
       /\ (transactions = <<>> => yearData = <<>>)

\* a store holding records of the selected year around a record of another year
C9_Witness ==
    /\ Len(yearData) >= 2
    /\ Len(yearData) < Len(transactions)
    /\ yearData[1] # yearData[2]
    /\ \E i, j, k \in DOMAIN transactions :
           /\ i < j /\ j < k
           /\ transactions[i].date[1] = year
           /\ transactions[j].date[1] # year
           /\ transactions[k].date[1] = year

\* C10: the month filter returns exactly the yearData records whose MM field
\* is the selected month: a record dated YYYY-MM-DD is in the result for MM
\* and for no other month.
C10_MonthFilterByDateField ==
    \A mo \in 1..12 :
        FilterByMonth(yearData, mo) = SelectSeq(yearData, LAMBDA t : t.date[2] = mo)

\* C7: month mode has exactly 12 buckets labelled 1 to 12 in order, and bucket
\* m holds the income sum and the expense sum of exactly the yearData records
\* whose date's month is m.
C7_MonthBucketsByDateField ==
    trendMode = "month" =>
        /\ ~trendData.threw
        /\ Len(trendData.points) = 12
        /\ \A m \in 1..12 :
               LET items == SelectSeq(yearData, LAMBDA t : t.date[2] = m)
               IN /\ trendData.points[m].name = <<m>>
                  /\ trendData.points[m].inc = SumAmounts(SelectSeq(items, LAMBDA t : t.type = Income))
                  /\ trendData.points[m].exp = SumAmounts(SelectSeq(items, LAMBDA t : t.type = Expense))

\* the offset of a record from Jan 1 of the selected year, in days, and the
\* week index clamped to [0, 52]
OffsetDays(t) == (ParseDate(t.date) - NewDate(year, 0, 1)) \div 24
ClampedWeek(t) ==
    LET w == OffsetDays(t) \div 7
    IN IF w < 0 THEN 0 ELSE IF w > 52 THEN 52 ELSE w

\* C5: week mode always has exactly 53 buckets, and each yearData record is
\* accumulated into bucket floor(offset / 7 days) clamped to [0, 52].
C5_WeekBucketsClamped ==
    trendMode = "week" =>
        /\ ~trendData.threw
        /\ Len(trendData.points) = 53
        /\ \A w \in 1..53 :
               LET items == SelectSeq(yearData, LAMBDA t : ClampedWeek(t) = w - 1)
               IN /\ trendData.points[w].inc = getStats(items).inc
                  /\ trendData.points[w].exp = getStats(items).exp

\* C6: in week mode a record with a negative offset from Jan 1 of the selected
\* year is accumulated into bucket 0 and the computation raises no error.
C6_NegativeOffsetGoesToBucketZero ==
    (trendMode = "week" /\ \E i \in DOMAIN yearData : OffsetDays(yearData[i]) < 0) =>
        /\ ~trendData.threw
        /\ LET early == SelectSeq(yearData, LAMBDA t : OffsetDays(t) < 0)
           IN trendData.points[1].inc + trendData.points[1].exp >= SumAmounts(early)

\* the n-th calendar day of year y (n = 1 is January 1)
DayOfYear(y, n) == CivilFromDays(DaysFromCivil(<<y, 1, 1>>) + n - 1)

\* C4: day mode emits exactly one point per calendar day of the selected year,
\* in order from January 1 to December 31: 366 points in a leap year
\* (divisible by 4 and (not by 100 or by 400)), 365 otherwise.
C4_OnePointPerCalendarDay ==
    trendMode = "day" =>
        LET td == trendData
            pts == td.points
        IN /\ ~td.threw
           /\ Len(pts) =
                  (IF year % 4 = 0 /\ (year % 100 # 0 \/ year % 400 = 0) THEN 366 ELSE 365)
           /\ \A n \in DOMAIN pts :
                  LET day == DayOfYear(year, n)
                  IN /\ pts[n].fullDate = day
                     /\ pts[n].name = <<day[2], day[3]>>

\* The quantities of the distribution formula, taken from yearData directly.
\* An expense is a record that is not income.
dayIncome(d) == SumAmounts(SelectSeq(yearData, LAMBDA t : t.type = Income /\ t.date = d))
directExpense(d) ==
    SumAmounts(SelectSeq(yearData, LAMBDA t :
        t.type # Income /\ t.date = d /\ t.category \notin FIXED /\ t.category \notin WEIGHTED))
totalIncome(mk) == SumAmounts(SelectSeq(yearData, LAMBDA t : t.type = Income /\ MonthKey(t.date) = mk))
fixedExpense(mk) ==
    SumAmounts(SelectSeq(yearData, LAMBDA t :
        t.type # Income /\ MonthKey(t.date) = mk /\ t.category \in FIXED))
weightedExpense(mk) ==
    SumAmounts(SelectSeq(yearData, LAMBDA t :
        t.type # Income /\ MonthKey(t.date) = mk /\ t.category \in WEIGHTED \ FIXED))

\* round(num / den) in exact arithmetic, halves up, and whether num / den is an exact half
ExactRound(num, den) == (2 * num + den) \div (2 * den)
IsHalf(num, den) == (2 * num) % den = 0 /\ ((2 * num) \div den) % 2 = 1

\* C1 as stated: in day mode every day's emitted expense is directExpense +
\* round(fixedExpense / daysInMonth) + round(weightedExpense * dayIncome /
\* totalIncome) (0 when totalIncome is 0), and the emitted income is dayIncome.
C1_DayExpenseIsDistributed ==
    trendMode = "day" =>
        LET pts == trendData.points
        IN \A n \in DOMAIN pts :
               LET d == pts[n].fullDate
                   mk == MonthKey(d)
                   T == totalIncome(mk)
               IN d[1] = year =>
                      /\ pts[n].inc = dayIncome(d)
                      /\ pts[n].exp =
                             directExpense(d) + ExactRound(fixedExpense(mk), MonthLen(d[1], d[2]))
                               + (IF T > 0 THEN ExactRound(weightedExpense(mk) * dayIncome(d), T) ELSE 0)

\* C1 amended: with smart distribution on, the same holds for every emitted
\* point of the selected year, the weighted share being the double product
\* weightedExpense * (dayIncome / totalIncome) rounded: the exact rounding,
\* or one less when the exact value is a half.
C1_SmartDayExpenseIsDistributed ==
    (trendMode = "day" /\ useSmartDistribution) =>
        LET pts == trendData.points
        IN \A n \in DOMAIN pts :
               LET d == pts[n].fullDate
                   mk == MonthKey(d)
                   T == totalIncome(mk)
                   W == weightedExpense(mk)
                   rest == pts[n].exp - directExpense(d)
                             - ExactRound(fixedExpense(mk), MonthLen(d[1], d[2]))
               IN d[1] = year =>
                      /\ pts[n].inc = dayIncome(d)
                      /\ IF T > 0
                         THEN \/ rest = ExactRound(W * dayIncome(d), T)
                              \/ /\ IsHalf(W * dayIncome(d), T)
                                 /\ rest = ExactRound(W * dayIncome(d), T) - 1
                         ELSE rest = 0

\* day mode with smart distribution on, a day that carries a weighted share of
\* its month's pool and a day that carries a direct expense and a fixed share
C1_Witness ==
    /\ trendMode = "day" /\ useSmartDistribution
    /\ LET pts == trendData.points
       IN /\ \E n \in DOMAIN pts :
                 LET mk == MonthKey(pts[n].fullDate)
                 IN /\ pts[n].fullDate[1] = year
                    /\ totalIncome(mk) > 0 /\ weightedExpense(mk) > 0 /\ pts[n].inc > 0
                    /\ pts[n].exp > 0
          /\ \E n \in DOMAIN pts :
                 /\ pts[n].fullDate[1] = year
                 /\ directExpense(pts[n].fullDate) > 0
                 /\ pts[n].exp = directExpense(pts[n].fullDate)
                                   + ExactRound(fixedExpense(MonthKey(pts[n].fullDate)),
                                                MonthLen(pts[n].fullDate[1], pts[n].fullDate[2]))

\* the example: income 1000 and a Fixed expense of 3100, both dated 2024-01-05
ExampleYear ==
    /\ year = 2024
    /\ Len(yearData) = 2
    /\ \E i, j \in 1..2 :
           /\ yearData[i].date = <<2024, 1, 5>> /\ yearData[i].type = Income
           /\ yearData[i].amount = 1000
           /\ yearData[j].date = <<2024, 1, 5>> /\ yearData[j].type = Expense
           /\ yearData[j].category = "Rent" /\ yearData[j].amount = 3100

ExamplePoints(pts) ==
    \A n \in DOMAIN pts :
        (pts[n].fullDate[1] = 2024 /\ pts[n].fullDate[2] = 1) =>
            IF pts[n].fullDate[3] = 5
            THEN pts[n].inc = 1000 /\ pts[n].exp = 100 /\ pts[n].net = 900
            ELSE pts[n].inc = 0 /\ pts[n].exp = 100 /\ pts[n].net = -100

fixedRecords(mk) ==
    SelectSeq(yearData, LAMBDA t : t.type # Income /\ MonthKey(t.date) = mk /\ t.category \in FIXED)

\* C2 as stated: in day mode a Fixed expense of amount A booked in month m
\* adds round(A / daysInMonth(m)) to every day of m and is not counted on its
\* own date; in the example 2024-01-05 has expense 100 and net 900 and every
\* other January day has income 0, expense 100, net -100.
C2_FixedExpenseSpread ==
    trendMode = "day" =>
        LET pts == trendData.points
        IN /\ \A n \in DOMAIN pts :
                  LET d == pts[n].fullDate
                      mk == MonthKey(d)
                  IN (d[1] = year /\ Len(fixedRecords(mk)) = 1 /\ weightedExpense(mk) = 0) =>
                         pts[n].exp = directExpense(d)
                                        + ExactRound(fixedRecords(mk)[1].amount, MonthLen(d[1], d[2]))
           /\ ExampleYear => ExamplePoints(pts)

\* C2 amended: with smart distribution on, the Fixed expenses of month m, of
\* total F, add round(F / daysInMonth(m)) to every emitted day of m and are
\* not counted on their own dates; the example's figures hold.
C2_SmartFixedExpenseSpread ==
    (trendMode = "day" /\ useSmartDistribution) =>
        LET pts == trendData.points
        IN /\ \A n \in DOMAIN pts :
                  LET d == pts[n].fullDate
                      mk == MonthKey(d)
                  IN (d[1] = year /\ weightedExpense(mk) = 0) =>
                         pts[n].exp = directExpense(d)
                                        + ExactRound(fixedExpense(mk), MonthLen(d[1], d[2]))
           /\ ExampleYear => ExamplePoints(pts)

\* the example's year shown in day mode with smart distribution on
C2_Witness ==
    /\ trendMode = "day" /\ useSmartDistribution
    /\ ExampleYear
    /\ Len(trendData.points) = 366

-----------------------------------------------------------------------------
(* Category breakdowns: C11, C12 *)

\* C11: every category breakdown (income sources and cost structure, of the
\* year and of the month) is ordered by value, largest first:
\* value[i] >= value[i+1] for every adjacent pair.
C11_BreakdownsSortedDescending ==
    \A c \in DOMAIN chartsData :
        \A i \in 1 .. (Len(chartsData[c]) - 1) :
            chartsData[c][i].value >= chartsData[c][i + 1].value

\* a cost structure of three categories whose order of first appearance is not
\* the order by value
C11_Witness ==
    LET inserted == CatAccumulate(yearData, Expense, <<>>)
    IN /\ Len(chartsData[2]) >= 3
       /\ \E i \in 1 .. (Len(inserted) - 1) : inserted[i].value < inserted[i + 1].value
       /\ Len(chartsData[4]) >= 2

\* the breakdown `result` has exactly one entry per category of the records
\* of `type` in `data`, each valued at the sum of those records' amounts
BreakdownOf(result, data, type) ==
    LET items == SelectSeq(data, LAMBDA t : t.type = type)
        cats == {items[i].category : i \in DOMAIN items}
    IN /\ Len(result) = Cardinality(cats)
       /\ \A c \in cats :
              \E k \in DOMAIN result :
                  /\ result[k].name = c
                  /\ result[k].value = SumAmounts(SelectSeq(items, LAMBDA t : t.category = c))
       /\ SumField(result, "value") = SumAmounts(items)

\* C12: a breakdown for a type has exactly one entry per distinct literal
\* category among the input records of that type, valued at the sum of their
\* amounts; records of another type contribute nothing, so the values sum to
\* the input's total of that type.
C12_BreakdownGroupsByLiteralCategory ==
    /\ BreakdownOf(chartsData[1], yearData, Income)
    /\ BreakdownOf(chartsData[2], yearData, Expense)
    /\ BreakdownOf(chartsData[3], monthData, Income)
    /\ BreakdownOf(chartsData[4], monthData, Expense)

\* a year with two records of one income category and a category used by both
\* an income and an expense record
C12_Witness ==
    /\ \E i, j \in DOMAIN yearData :
           /\ i < j /\ yearData[i].type = Income /\ yearData[j].type = Income
           /\ yearData[i].category = yearData[j].category
    /\ \E i, j \in DOMAIN yearData :
           /\ yearData[i].type = Income /\ yearData[j].type = Expense
           /\ yearData[i].category = yearData[j].category
    /\ Len(chartsData[1]) >= 2 /\ Len(chartsData[2]) >= 1

-----------------------------------------------------------------------------
(* Export: C13, C14 *)

\* A CSV reader (RFC 4180): records are separated by line breaks and fields by
\* commas outside double quotes; inside quotes a doubled quote is one quote.
\* A field is read as [quoted, text].
Separators(text, marks) ==
    {k \in DOMAIN text :
        /\ text[k] \in marks
        /\ Cardinality({j \in 1 .. (k - 1) : text[j] = Quote}) % 2 = 0}

\* the pieces of text between the positions in cuts
SplitAt(text, cuts) ==
    [k \in 1 .. (Cardinality(cuts) + 1) |->
        SubSeq(text,
               IF k = 1 THEN 1 ELSE KthIndex(cuts, k - 1) + 1,
               IF k > Cardinality(cuts) THEN Len(text) ELSE KthIndex(cuts, k) - 1)]

RECURSIVE Unescape(_)
Unescape(inner) ==
    IF inner = <<>> THEN <<>>
    ELSE IF Head(inner) # Quote THEN <<Head(inner)>> \o Unescape(Tail(inner))
    ELSE IF Len(inner) >= 2 /\ inner[2] = Quote THEN <<Quote>> \o Unescape(Tail(Tail(inner)))
    ELSE Unescape(Tail(inner))

ReadField(piece) ==
    IF Len(piece) >= 2 /\ piece[1] = Quote /\ piece[Len(piece)] = Quote
    THEN [quoted |-> TRUE, text |-> Unescape(SubSeq(piece, 2, Len(piece) - 1))]
    ELSE [quoted |-> FALSE, text |-> piece]

ReadCSV(text) ==
    LET lines == SplitAt(text, Separators(text, {NewLine}))
    IN [i \in DOMAIN lines |->
           LET fields == SplitAt(lines[i], Separators(lines[i], {Comma}))
           IN [k \in DOMAIN fields |-> ReadField(fields[k])]]

Plain(text) == [quoted |-> FALSE, text |-> text]
Quoted(text) == [quoted |-> TRUE, text |-> text]

\* whether text holds the sequence part at consecutive positions
Contains(text, part) ==
    \E k \in 0 .. (Len(text) - Len(part)) : SubSeq(text, k + 1, k + Len(part)) = part

\* "He said ""hi"""
QuoteNoteInCSV ==
    <<Comma, Quote, "H", "e", " ", "s", "a", "i", "d", " ", Quote, Quote, "h", "i", Quote, Quote, Quote>>

\* C13: the CSV export starts with the byte-order mark, then the header row,
\* then one row per transaction in store order; each note is wrapped in double
\* quotes with every embedded quote doubled: read back as CSV, row i gives the
\* six fields of transaction i, and the note He said "hi" is written
\* "He said ""hi""".
C13_CsvExportFormat ==
    LET text == exportCsv
        recs == ReadCSV(Tail(text))
    IN /\ Head(text) = BOM
       /\ Len(recs) = 1 + Len(transactions)
       /\ recs[1] = [k \in 1..6 |-> Plain(headers[k])]
       /\ \A i \in DOMAIN transactions :
              LET t == transactions[i]
              IN /\ recs[i + 1] =
                        << Plain(<<ToString(t.id)>>), Plain(DateText(t.date)), Plain(<<t.type>>),
                           Plain(<<t.category>>), Plain(<<ToString(t.amount)>>), Quoted(t.note) >>
                 /\ t.note = QuoteNote => Contains(text, QuoteNoteInCSV)
       /\ Cardinality({k \in DOMAIN text : text[k] = NewLine}) = Len(transactions)

\* a store with a note holding quotes, a note holding a comma and empty notes
C13_Witness ==
    /\ \E i \in DOMAIN transactions : transactions[i].note = QuoteNote
    /\ \E i \in DOMAIN transactions : transactions[i].note = CommaNote
    /\ \E i \in DOMAIN transactions : transactions[i].note = NoNote
    /\ Len(exportCsv) > 1

\* the positions where an object of the JSON text starts
JsonObjectStarts(text) == {k \in DOMAIN text : text[k] = "{"}

\* both exports hold every transaction of the store, in store order
ExportsCoverStore ==
    LET json == exportJson
        recs == ReadCSV(Tail(exportCsv))
        starts == JsonObjectStarts(json)
    IN /\ Len(recs) = 1 + Len(transactions)
       /\ Cardinality(starts) = Len(transactions)
       /\ \A i \in DOMAIN transactions :
              LET t == transactions[i]
                  at == KthIndex(starts, i)
                  member == JsonString(<<"id">>) \o <<":", ToString(t.id), Comma>>
                                \o JsonString(<<"date">>) \o <<":">> \o JsonString(DateText(t.date))
              IN /\ recs[i + 1][1].text = <<ToString(t.id)>>
                 /\ recs[i + 1][2].text = DateText(t.date)
                 /\ recs[i + 1][5].text = <<ToString(t.amount)>>
                 /\ SubSeq(json, at + 1, at + Len(member)) = member

\* the views the dashboard can show of the store
Views ==
    {View(y, m, mode, smart) :
        y \in years, m \in MonthChoices, mode \in {"month", "week", "day"}, smart \in BOOLEAN}

\* C14: the CSV and JSON exports cover every transaction of the complete
\* store, and two dashboard states that differ only in the selected year,
\* month, trend mode or smart-distribution toggle export the same texts.
C14_ExportIndependentOfView ==
    /\ ExportsCoverStore
    /\ LET csv == exportCsv
           json == exportJson
       IN \A v \in Views :
              /\ handleExport("csv", transactions, v) = csv
              /\ handleExport("json", transactions, v) = json

\* a store of two years seen in a view that differs from the initial one in
\* year, trend mode and toggle, and that hides part of the store
C14_Witness ==
    /\ year # currentYear /\ trendMode = "day" /\ useSmartDistribution
    /\ Len(yearData) > 0 /\ Len(yearData) < Len(transactions)
    /\ Len(monthData) < Len(yearData)
    /\ Len(exportJson) > 2

-----------------------------------------------------------------------------
(* Trend builder on an empty year: C16 *)

-----------------------------------------------------------------------------
(* The store across loads, saves, edits and deletes: C17 .. C20 (AppSpec) *)

\* C17: after any sequence of initial load, cloud load, save of a new record,
\* edit and delete, no two transactions in the store have the same id.
C17_IdsUnique ==
    \A i, j \in DOMAIN transactions :
        i # j => transactions[i].id # transactions[j].id

\* C18: if fetchCloudData fails during the initial load, the in-memory store
\* stays equal to the collection loaded from local storage, local storage is
\* not modified, and the loading state ends.
C18_FetchFailureKeepsLocal ==
    [][(fetchState = "pending" /\ fetchState' = "rejected") =>
          /\ transactions' = transactions
          /\ stored' = stored
          /\ transactions' = stored'
          /\ initialLoading /\ ~initialLoading']_vars

\* the failed load of a session that started from a non-empty local store
C18_Witness ==
    /\ fetchState = "rejected"
    /\ ~initialLoading
    /\ transactions # <<>>
    /\ transactions = stored

\* C19: if syncTransactionToCloud fails after a save or a delete, the mutation
\* already applied to the in-memory store and to local storage is kept (no
\* rollback), and the failure is reported by setting syncStatus to 'error'.
C19_SyncFailureKeepsMutation ==
    [][\A i \in DOMAIN pushes :
          PushRejected(i) =>
              /\ transactions' = transactions
              /\ stored' = stored
              /\ syncStatus' = "error"]_vars

\* a session that never got cloud data, after two mutations (a delete and an
\* append, or an append and an edit) and a failed push: a record made in this
\* session is still in the store and in local storage, and the status shows
\* the error
C19_Witness ==
    /\ syncStatus = "error"
    /\ pushes = <<>>
    /\ fetchState = "rejected"
    /\ added = 2
    /\ Len(transactions) = AppLocalLen
    /\ \E i \in DOMAIN transactions :
           /\ transactions[i].id > ClockBase
           /\ i \in DOMAIN stored /\ stored[i] = transactions[i]

\* C20: after every operation that changes the in-memory transaction
\* collection (cloud load with a non-empty result, save, edit, delete), the
\* collection persisted in local storage is equal to the in-memory collection.
\* The session starts with the store read from local storage, so the two agree
\* in every state.
C20_LocalStorageMirrorsStore == stored = transactions

-----------------------------------------------------------------------------
(* Ingestion: C21 .. C23 (AppSpec) *)

\* C21: a record with a non-positive or non-numeric amount never enters the
\* store (fetchCloudData drops it, handleSubmit refuses it), so every
\* transaction handed to the aggregators has amount > 0.
C21_AmountsPositive ==
    \A i \in DOMAIN transactions : transactions[i].amount > 0

\* the positions of the rows that pass the amount filter, and the k-th of them
PassingRows(cloudData) == {i \in DOMAIN cloudData : AmountPasses(cloudData[i].amount)}
KthPassing(cloudData, k) ==
    CHOOSE i \in PassingRows(cloudData) :
        Cardinality({j \in PassingRows(cloudData) : j <= i}) = k

\* the current date, as the app writes dates (Asia/Taipei)
today == ToTaipeiDateString(SessionInstant)

\* C22: fetchCloudData never rejects a record because its date cannot be
\* parsed: such a record is returned with the current date, so the number of
\* returned records equals the number of input records that pass the amount
\* filter.
C22_BadDateIsCoerced ==
    \A cloudData \in CloudSheets :
        LET cloud == fetchCloudData(cloudData, now)
        IN /\ Len(cloud) = Cardinality(PassingRows(cloudData))
           /\ \A k \in DOMAIN cloud :
                  LET r == cloudData[KthPassing(cloudData, k)]
                  IN /\ cloud[k].category = r.category
                     /\ r.date.kind = "bad" => cloud[k].date = today

\* the store after a load of the sheet with the unparsable date
C22_Witness ==
    /\ fetchState = "fulfilled"
    /\ \E i \in DOMAIN transactions :
           /\ transactions[i].category = "Misc"
           /\ transactions[i].date = today
    /\ \E cloudData \in CloudSheets :
           /\ \E i \in DOMAIN cloudData : cloudData[i].date.kind = "bad"
           /\ Len(transactions) = Cardinality(PassingRows(cloudData))
           /\ Len(transactions) < Len(cloudData)

\* C23: after any sequence of local load, cloud load and save operations,
\* every transaction in the store has type Income or Expense; no third value
\* is ever stored or aggregated.
C23_TypesAreTwoVariants ==
    \A i \in DOMAIN transactions : transactions[i].type \in {Income, Expense}

-----------------------------------------------------------------------------
(* Smart distribution: C24, C25, C28, C29 (Spec) *)

\* C24: in day mode with smart distribution, the weighted share of a day is
\* exactly 0 for every day whose income is 0 and for every day of a month
\* whose total income is 0, whatever the month's weighted expense; the
\* computation does not raise.  The weighted share of an emitted day is what
\* its expense holds beyond the direct expense and the fixed share.
C24_ZeroIncomeZeroWeightedShare ==
    (trendMode = "day" /\ useSmartDistribution) =>
        LET td == trendData
            pts == td.points
        IN /\ ~td.threw
           /\ \A n \in DOMAIN pts :
                  LET p == pts[n]
                      d == p.fullDate
                      mk == MonthKey(d)
                  IN (d[1] = year /\ (p.inc = 0 \/ totalIncome(mk) = 0)) =>
                         p.exp - directExpense(d)
                           - ExactRound(fixedExpense(mk), MonthLen(d[1], d[2])) = 0

\* day mode with smart distribution on, a month that holds a weighted expense
\* and no income
C24_Witness ==
    /\ trendMode = "day" /\ useSmartDistribution
    /\ \E m \in 1 .. 12 :
           /\ totalIncome(<<year, m>>) = 0
           /\ weightedExpense(<<year, m>>) > 0
    /\ Len(trendData.points) >= 365

\* the emitted points of month mk
PointsOfMonth(pts, mk) == {n \in DOMAIN pts : MonthKey(pts[n].fullDate) = mk}

\* C25: for every month, the sum of fixedShare(d) over all days of the month
\* differs from the month's total fixed expense by at most daysInMonth.  Every
\* emitted day of the month carries the fixedShare of the month's pool, so the
\* sum is that share times the number of the month's emitted days.
C25_FixedSharesSumToPool ==
    (trendMode = "day" /\ useSmartDistribution) =>
        LET pts == trendData.points
            pools == monthlyPools
        IN \A m \in 1 .. 12 :
               LET mk == <<year, m>>
                   F == fixedExpense(mk)
                   n == MonthLen(year, m)
                   total == Cardinality(PointsOfMonth(pts, mk)) * fixedShare(pools[mk])
               IN total - F <= n /\ F - total <= n

\* C28: with smart distribution on, every expense transaction of yearData
\* dated on a calendar day of the selected year is counted in exactly one of
\* its month's fixedExp pool, its month's weightedExp pool, or its own day's
\* directExp.  The three classes (Fixed, Weighted and not Fixed, neither)
\* partition the expenses, so this is: each pool and each day's directExp
\* holds the sum of its class, a day without an entry holding nothing.
C28_ExpenseCountedOnce ==
    (trendMode = "day" /\ useSmartDistribution) =>
        LET pools == monthlyPools
            map == dayMap(dateStrs)
        IN /\ \A m \in 1 .. 12 :
                  LET mk == <<year, m>>
                  IN /\ pools[mk].fixedExp = fixedExpense(mk)
                     /\ pools[mk].weightedExp = weightedExpense(mk)
           /\ \A n \in 1 .. (IF IsLeapYear(year) THEN 366 ELSE 365) :
                  LET d == DayOfYear(year, n)
                  IN directExpense(d) = (IF d \in DOMAIN map THEN map[d].directExp ELSE 0)

\* the expenses dated d: the records that are not income
dayExpense(d) == SumAmounts(SelectSeq(yearData, LAMBDA t : t.type # Income /\ t.date = d))

\* C29: with smart distribution off, the day-mode expense of each day equals
\* the sum of the amounts of all expense transactions dated that day, with no
\* fixed or weighted share added, so the daily expenses of a year sum to the
\* yearly expense.
C29_PlainDayExpense ==
    (trendMode = "day" /\ ~useSmartDistribution) =>
        LET pts == trendData.points
        IN /\ \A n \in DOMAIN pts :
                  LET p == pts[n] IN p.exp = dayExpense(p.fullDate)
           /\ SumField(SelectSeq(pts, LAMBDA p : p.exp # 0), "exp") = yearStats.exp

-----------------------------------------------------------------------------
(* Saves and pushes against the initial fetch and the timers: C26, C27, C30
   (AppSpec) *)

\* C26: a transaction added by handleSaveTransaction while the initial
\* fetchCloudData is still in flight remains in the in-memory store and in
\* local storage after the fetch completes.  While the fetch is pending the
\* records added in this session are those with an id above ClockBase.
C26_LocalAdditionsSurviveFetch ==
    [][(fetchState = "pending" /\ fetchState' = "fulfilled") =>
          \A i \in DOMAIN transactions :
              transactions[i].id > ClockBase =>
                  /\ \E j \in DOMAIN transactions' : transactions'[j] = transactions[i]
                  /\ \E j \in DOMAIN stored' : stored'[j] = transactions[i]]_vars

\* a step of handleSaveTransaction: it starts one push of a saved record
SaveStep ==
    /\ Len(pushes') = Len(pushes) + 1
    /\ pushes'[Len(pushes')].action = "save"

\* C27: after every handleSaveTransaction call, the record that is pushed to
\* the cloud (newTx) is present in the in-memory store and in local storage:
\* with editingId set exactly the record with that id is replaced and the
\* record count is unchanged, otherwise exactly one record is appended; for
\* every interleaving of selecting a record for edit, initial-fetch
\* completion and save.
C27_SavedRecordIsInStore ==
    [][SaveStep =>
          LET newTx == pushes'[Len(pushes')].tx
          IN /\ \E j \in DOMAIN transactions' : transactions'[j] = newTx
             /\ \E j \in DOMAIN stored' : stored'[j] = newTx
             /\ IF editingId # 0
                THEN /\ Len(transactions') = Len(transactions)
                     /\ \A j \in DOMAIN transactions :
                            transactions'[j] = (IF transactions[j].id = editingId
                                                THEN newTx ELSE transactions[j])
                ELSE transactions' = Append(transactions, newTx)]_vars

\* C30: whenever a syncTransactionToCloud call started by
\* handleSaveTransaction or handleDeleteTransaction is still pending,
\* syncStatus is 'saving': a reset-to-idle timer armed by an earlier save or
\* delete never changes the status shown for a later operation.
C30_PendingPushShowsSaving == pushes # <<>> => syncStatus = "saving"

====
